---- MODULE Spec2Model ----
(***************************************************************************)
(* Model of src/native/os_x11_linux.cc: the registry of embedded windows   *)
(* (trackedWindows), OSSetWindowParent (embed / un-embed) on the caller's  *)
(* thread, and WindowThread, the event thread whose lifetime follows the   *)
(* registry.  The caller's thread and the event threads interleave at the  *)
(* accesses to the two atomic flags and at std::thread::join.              *)
(***************************************************************************)
EXTENDS Integers, Sequences, FiniteSets, TLC

\* ---------------------------------------------------------------- bounds
MaxWindows == 2      \* electron windows the caller may pass to SetParent
MaxIds     == 4      \* identifiers xcb_generate_id hands out in one run
MaxThreads == 2      \* event threads started in one run
MaxAncestors == 2    \* windows between a handle and the root in GetClientBounds
MaxNodes   == 3      \* windows below the root in the tree OSGetRsHandles walks

\* ------------------------------------------------------- handles (XIDs)
NoWindow     == 0    \* the reserved "no window" handle; also nullptr of GetFrame
RootWindow   == 1    \* rootWindow of the connection
GameToplevel == 2    \* a foreign top-level window: child of the root
GameView     == 3    \* a content view nested inside GameToplevel
FirstWindow  == 10   \* first handle of the caller's own (electron) windows
FirstId      == 100  \* first identifier xcb_generate_id returns

Windows     == FirstWindow .. (FirstWindow + MaxWindows - 1)
Parents     == {GameToplevel, GameView}
GeneratedId == FirstId .. (FirstId + MaxIds - 1)
Threads     == 1 .. MaxThreads

\* what xcb_wait_for_event can yield: an X error (response type 0), an
\* Expose event, any other event, or NULL on a connection failure
Events   == {"error", "expose", "other"}
NoEvent  == "null"

\* outcomes of dereferencing the NULL geometry reply (undefined behaviour)
UBOutcomes == {"segv", "garbage"}

VARIABLES
    trackedWindows,         \* std::vector<TrackedWindow>
    windowThread,           \* std::thread: the thread it owns, 0 when not joinable
    windowThreadExists,     \* std::atomic<bool>
    windowThreadShouldRun,  \* std::atomic<bool>
    tpc,                    \* position of every event thread ever started
    pc,                     \* position of the caller's thread inside SetParent
    cw,                     \* window argument of the current or last SetParent call
    nextId,                 \* next identifier of xcb_generate_id
    frames,                 \* server: frame windows created and not destroyed
    xparent,                \* server: parent of each electron window
    overrideRedirect,       \* server: windows with OverrideRedirect set
    requests,               \* requests sent on the connection by the last call
    procState,              \* "running", or how the process died
    embedded,               \* history: windows the caller embedded and did not un-embed
    disciplined,            \* history: every embed so far was of a Floating, valid window
    waitFailed,             \* history: xcb_wait_for_event returned NULL at least once
    call,                   \* history: the path taken by the current or last SetParent call
    prev,                   \* history: the path taken by the call before that one
    failedThreads,          \* history: threads that left their loop on a NULL event
    bw,                     \* handle of the last SetBounds call
    configured,             \* configure requests sent by the last SetBounds call
    tree,                   \* window tree and WM_CLASS replies given to OSGetRsHandles
    rsHandles,              \* what OSGetRsHandles returned
    chain,                  \* ancestor chain and replies given to GetClientBounds
    clientBounds,           \* what GetClientBounds returned
    pixmaps,                \* server: pixmaps named by the engine and not freed
    shmAttached,            \* server: shared-memory segments attached by the engine
    redirected,             \* server: windows whose output the engine redirected
    capture                 \* outcome of the last OSCaptureMulti call

vars == <<trackedWindows, windowThread, windowThreadExists, windowThreadShouldRun,
          tpc, pc, cw, nextId, frames, xparent, overrideRedirect, requests,
          procState, embedded, disciplined, waitFailed, call, prev, failedThreads,
          bw, configured, tree, rsHandles, chain, clientBounds,
          pixmaps, shmAttached, redirected, capture>>

boundsVars    == <<bw, configured>>
discoveryVars == <<tree, rsHandles>>
geometryVars  == <<chain, clientBounds>>
captureVars   == <<pixmaps, shmAttached, redirected, capture>>
auxVars       == <<boundsVars, discoveryVars, geometryVars, captureVars>>

threadVars == <<windowThread, windowThreadExists, windowThreadShouldRun, tpc>>
serverVars == <<frames, xparent, overrideRedirect>>

\* ---------------------------------------------------------------- helpers
TrackedWindow(window, frame) == [window |-> window, frame |-> frame]

GetFrameAny(win) ==
    IF trackedWindows = <<>> THEN NoWindow ELSE trackedWindows[1].frame

\* GetFrame: the frame of the first entry whose window is win, or nullptr
GetFrame(win) ==
    LET hits == {i \in 1..Len(trackedWindows) : trackedWindows[i].window = win}
    IN  IF hits = {} THEN NoWindow
        ELSE trackedWindows[CHOOSE i \in hits : \A j \in hits : i <= j].frame

\* the Floating state of section 4.3: no entry of the registry is for win
Floating(win) == \A i \in 1..Len(trackedWindows) : trackedWindows[i].window # win

RemoveOthers(tw, win) == SelectSeq(tw, LAMBDA e : e.window = win)

\* erase(remove_if(... w.window == window.handle ...)): drops every match
RemoveWindow(tw, win) == SelectSeq(tw, LAMBDA e : e.window # win)

\* the parent field of the tree reply for a window passed as `parent`
TreeParent(p) == IF p = GameView THEN GameToplevel ELSE RootWindow

EmbedAlways(treeReply, p) == treeReply

\* tree && tree->parent != tree->root
EmbedAllowed(treeReply, p) == treeReply /\ TreeParent(p) # RootWindow

NeedThreadAlways == TRUE

\* !windowThreadExists.load()
NeedThread == ~windowThreadExists

StopSignalMissing == windowThreadShouldRun

\* the value line 263 stores to windowThreadShouldRun
StopSignal == FALSE

ThreadsStarted == Cardinality({t \in Threads : tpc[t] # "unborn"})

\* no SetBounds, discovery, GetClientBounds or capture call has been made
BoundsIdle    == bw = NoWindow /\ configured = {}
DiscoveryIdle == tree = <<>> /\ rsHandles = <<>>
GeometryIdle  == chain = <<>> /\ clientBounds = <<>>
CaptureIdle   ==
    /\ pixmaps = {}
    /\ shmAttached = 0
    /\ redirected = {}
    /\ capture = [mode |-> "none", result |-> "none", requests |-> <<>>, regions |-> <<>>]

\* the globals of lines 15-18 after static initialisation, on a fresh connection
RegistryInit ==
    /\ trackedWindows = <<>>
    /\ windowThread = 0
    /\ windowThreadExists = FALSE
    /\ windowThreadShouldRun = FALSE
    /\ tpc = [t \in Threads |-> "unborn"]
    /\ pc = "idle"
    /\ cw = NoWindow
    /\ nextId = FirstId
    /\ frames = {}
    /\ xparent = [w \in Windows |-> RootWindow]
    /\ overrideRedirect = {}
    /\ requests = {}
    /\ procState = "running"
    /\ embedded = {}
    /\ disciplined = TRUE
    /\ waitFailed = FALSE
    /\ call = "none"
    /\ prev = "none"
    /\ failedThreads = {}

Init == RegistryInit /\ BoundsIdle /\ DiscoveryIdle /\ GeometryIdle /\ CaptureIdle

\* ------------------------------------------------- OSSetWindowParent: embed
\* Lines 204-237 and, when a thread already exists, 252-256.  Requests take
\* effect on the server in the order they are sent.  geometry->width on a NULL
\* reply is undefined behaviour: the process dies there (ub = "segv") or reads
\* garbage dimensions and carries on (ub = "garbage").
SetParentEmbed(w, p, treeReply, geomReply, ub) ==
    /\ procState = "running"
    /\ UNCHANGED auxVars
    /\ pc = "idle"
    /\ nextId + 1 < FirstId + MaxIds
    /\ ThreadsStarted < MaxThreads
    /\ cw' = w
    /\ prev' = call
    /\ disciplined' = (disciplined /\ Floating(w) /\ treeReply /\ geomReply)
    /\ UNCHANGED <<threadVars, waitFailed, failedThreads>>
    /\ IF ~EmbedAllowed(treeReply, p)
       THEN /\ call' = (IF treeReply THEN "embed_toplevel" ELSE "embed_noreply")
            /\ requests' = {"query_tree", "get_geometry"}
            /\ UNCHANGED <<trackedWindows, nextId, serverVars, pc, procState, embedded>>
       ELSE /\ nextId' = nextId + 1
            /\ trackedWindows' = Append(trackedWindows, TrackedWindow(w, nextId))
            /\ overrideRedirect' = overrideRedirect \cup {w}
            /\ IF ~geomReply /\ ub = "segv"
               THEN /\ procState' = "segv"
                    /\ call' = "embed_nogeometry"
                    /\ pc' = "create_window"
                    /\ requests' = {"query_tree", "get_geometry", "generate_id",
                                    "change_window_attributes"}
                    /\ UNCHANGED <<frames, xparent, embedded>>
               ELSE /\ call' = (IF geomReply THEN "embed" ELSE "embed_nogeometry")
                    /\ frames' = frames \cup {nextId}
                    /\ xparent' = [xparent EXCEPT ![w] = nextId]
                    /\ UNCHANGED procState
                    /\ IF ~NeedThread
                       THEN /\ pc' = "idle"
                            /\ embedded' = embedded \cup {w}
                            /\ requests' = {"query_tree", "get_geometry", "generate_id",
                                            "change_window_attributes", "create_window",
                                            "map_window", "reparent_window", "flush"}
                       ELSE /\ pc' = "start_gc"
                            /\ requests' = {"query_tree", "get_geometry", "generate_id",
                                            "change_window_attributes", "create_window",
                                            "map_window", "reparent_window"}
                            /\ UNCHANGED embedded

\* Lines 242-247: the graphics context, then windowThreadShouldRun = true
StartGc ==
    /\ procState = "running"
    /\ UNCHANGED auxVars
    /\ pc = "start_gc"
    /\ nextId' = nextId + 1
    /\ requests' = requests \cup {"create_gc"}
    /\ windowThreadShouldRun' = TRUE
    /\ pc' = "start_exists"
    /\ UNCHANGED <<trackedWindows, windowThread, windowThreadExists, tpc, cw, serverVars,
                   procState, embedded, disciplined, waitFailed, failedThreads, call, prev>>

\* Line 248: windowThreadExists = true
StartExists ==
    /\ procState = "running"
    /\ UNCHANGED auxVars
    /\ pc = "start_exists"
    /\ windowThreadExists' = TRUE
    /\ pc' = "start_thread"
    /\ UNCHANGED <<trackedWindows, windowThread, windowThreadShouldRun, tpc, cw, nextId,
                   serverVars, requests, procState, embedded, disciplined, waitFailed, failedThreads, call, prev>>

\* Lines 249-256: windowThread = std::thread(WindowThread, gc).  Move-assigning
\* to a std::thread that is still joinable calls std::terminate.
StartThread ==
    /\ procState = "running"
    /\ UNCHANGED auxVars
    /\ pc = "start_thread"
    /\ IF windowThread # 0
       THEN /\ procState' = "terminated"
            /\ UNCHANGED <<windowThread, tpc, pc, requests, embedded>>
       ELSE /\ windowThread' = ThreadsStarted + 1
            /\ tpc' = [tpc EXCEPT ![ThreadsStarted + 1] = "loop"]
            /\ requests' = requests \cup {"flush"}
            /\ embedded' = embedded \cup {cw}
            /\ pc' = "idle"
            /\ UNCHANGED procState
    /\ UNCHANGED <<trackedWindows, windowThreadExists, windowThreadShouldRun, cw, nextId,
                   serverVars, disciplined, waitFailed, failedThreads, call, prev>>

\* ---------------------------------------------- OSSetWindowParent: un-embed
\* Lines 258-265 (last entry, up to the join) or 258-261 and 269-275
SetParentDetach(w) ==
    /\ procState = "running"
    /\ UNCHANGED auxVars
    /\ pc = "idle"
    /\ cw' = w
    /\ prev' = call
    /\ UNCHANGED <<windowThread, windowThreadExists, tpc, nextId, overrideRedirect,
                   procState, disciplined, waitFailed, failedThreads>>
    /\ IF GetFrame(w) = NoWindow
       THEN /\ call' = "unembed_absent"
            /\ requests' = {}
            /\ embedded' = embedded \ {w}
            /\ UNCHANGED <<trackedWindows, windowThreadShouldRun, frames, xparent, pc>>
       ELSE /\ xparent' = [xparent EXCEPT ![w] = RootWindow]
            /\ frames' = frames \ {GetFrame(w)}
            /\ requests' = {"reparent_window", "destroy_window", "flush"}
            /\ IF Len(trackedWindows) = 1
               THEN /\ call' = "unembed_last"
                    /\ windowThreadShouldRun' = StopSignal
                    /\ pc' = "join"
                    /\ UNCHANGED <<trackedWindows, embedded>>
               ELSE /\ call' = "unembed"
                    /\ trackedWindows' = RemoveWindow(trackedWindows, w)
                    /\ embedded' = embedded \ {w}
                    /\ UNCHANGED <<windowThreadShouldRun, pc>>

JoinNoWait ==
    /\ procState = "running"
    /\ UNCHANGED auxVars
    /\ pc = "join"
    /\ windowThread' = 0
    /\ trackedWindows' = <<>>
    /\ embedded' = embedded \ {cw}
    /\ pc' = "idle"
    /\ UNCHANGED <<windowThreadExists, windowThreadShouldRun, tpc, cw, nextId, serverVars,
                   requests, procState, disciplined, waitFailed, failedThreads, call, prev>>

\* Lines 266-267: windowThread.join() returns once the thread's function has
\* returned; then trackedWindows.clear().  join() on a std::thread that is not
\* joinable throws std::system_error, which nothing catches.
JoinThread ==
    /\ procState = "running"
    /\ UNCHANGED auxVars
    /\ pc = "join"
    /\ IF windowThread = 0
       THEN /\ procState' = "terminated"
            /\ UNCHANGED <<windowThread, trackedWindows, embedded, pc>>
       ELSE /\ tpc[windowThread] = "done"
            /\ windowThread' = 0
            /\ trackedWindows' = <<>>
            /\ embedded' = embedded \ {cw}
            /\ pc' = "idle"
            /\ UNCHANGED procState
    /\ UNCHANGED <<windowThreadExists, windowThreadShouldRun, tpc, cw, nextId, serverVars,
                   requests, disciplined, waitFailed, failedThreads, call, prev>>

\* ------------------------------------------------------------ WindowThread
callerVars == <<trackedWindows, windowThread, pc, cw, nextId, serverVars, requests,
                procState, embedded, disciplined, call, prev>>

ThreadLoopInverted(t) ==
    /\ procState = "running"
    /\ UNCHANGED auxVars
    /\ tpc[t] = "loop"
    /\ tpc' = [tpc EXCEPT ![t] = IF windowThreadShouldRun THEN "exit" ELSE "wait"]
    /\ UNCHANGED <<callerVars, windowThreadExists, windowThreadShouldRun, waitFailed, failedThreads>>

\* Line 349: while (windowThreadShouldRun.load())
ThreadLoop(t) ==
    /\ procState = "running"
    /\ UNCHANGED auxVars
    /\ tpc[t] = "loop"
    /\ tpc' = [tpc EXCEPT ![t] = IF windowThreadShouldRun THEN "wait" ELSE "exit"]
    /\ UNCHANGED <<callerVars, windowThreadExists, windowThreadShouldRun, waitFailed, failedThreads>>

ThreadWaitContinue(t, ev) ==
    /\ procState = "running"
    /\ UNCHANGED auxVars
    /\ tpc[t] = "wait"
    /\ tpc' = [tpc EXCEPT ![t] = "loop"]
    /\ waitFailed' = (waitFailed \/ ev = NoEvent)
    /\ failedThreads' = (IF ev = NoEvent THEN failedThreads \cup {t} ELSE failedThreads)
    /\ UNCHANGED <<callerVars, windowThreadExists, windowThreadShouldRun>>

\* Lines 350-371: xcb_wait_for_event, then the dispatch on the event's type
\* (logging only) and free(event); a NULL event breaks out of the loop
ThreadWait(t, ev) ==
    /\ procState = "running"
    /\ UNCHANGED auxVars
    /\ tpc[t] = "wait"
    /\ tpc' = [tpc EXCEPT ![t] = IF ev # NoEvent THEN "loop" ELSE "exit"]
    /\ waitFailed' = (waitFailed \/ ev = NoEvent)
    /\ failedThreads' = (IF ev = NoEvent THEN failedThreads \cup {t} ELSE failedThreads)
    /\ UNCHANGED <<callerVars, windowThreadExists, windowThreadShouldRun>>

\* Lines 373-375: windowThreadExists = false, and the function returns
ThreadExit(t) ==
    /\ procState = "running"
    /\ UNCHANGED auxVars
    /\ tpc[t] = "exit"
    /\ windowThreadExists' = FALSE
    /\ tpc' = [tpc EXCEPT ![t] = "done"]
    /\ UNCHANGED <<callerVars, windowThreadShouldRun, waitFailed, failedThreads>>

Next ==
    \/ \E w \in Windows, p \in Parents, treeReply \in BOOLEAN, geomReply \in BOOLEAN,
          ub \in UBOutcomes : SetParentEmbed(w, p, treeReply, geomReply, ub)
    \/ StartGc
    \/ StartExists
    \/ StartThread
    \/ \E w \in Windows : SetParentDetach(w)
    \/ JoinThread
    \/ \E t \in Threads : ThreadLoop(t)
    \/ \E t \in Threads, ev \in Events \cup {NoEvent} : ThreadWait(t, ev)
    \/ \E t \in Threads : ThreadExit(t)

Spec == Init /\ [][Next]_vars

\* The scheduler runs every started thread, join() returns once the joined
\* thread's function has returned, and the windowing system keeps delivering
\* to a thread blocked in xcb_wait_for_event (an event or a connection error).
Fairness ==
    /\ WF_vars(JoinThread)
    /\ \A t \in Threads :
          /\ WF_vars(ThreadLoop(t))
          /\ WF_vars(\E ev \in Events \cup {NoEvent} : ThreadWait(t, ev))
          /\ WF_vars(ThreadExit(t))

SpecFair == Spec /\ Fairness

\* ---------------------------------------------------- OSWindow::SetBounds
\* the rectangles a caller passes: both sides positive, or one side not
Rects ==
    {[x |-> 7, y |-> 9, width |-> 4, height |-> 3],
     [x |-> 7, y |-> 9, width |-> 0, height |-> 3],
     [x |-> 7, y |-> 9, width |-> 4, height |-> -1]}

ResizesEither(b) == b.width > 0 \/ b.height > 0

\* bounds.width > 0 && bounds.height > 0
Resizes(b) == b.width > 0 /\ b.height > 0

ConfigureWindow(window, mask, values) ==
    [window |-> window, mask |-> mask, values |-> values]

\* Lines 27-50, called on the caller's thread between SetParent calls
SetBounds(handle, b) ==
    /\ procState = "running"
    /\ pc = "idle"
    /\ bw' = handle
    /\ configured' =
          IF GetFrame(handle) = NoWindow THEN {}
          ELSE IF Resizes(b)
               THEN {ConfigureWindow(GetFrame(handle), "xywh", <<b.x, b.y, b.width, b.height>>),
                     ConfigureWindow(handle, "xywh", <<0, 0, b.width, b.height>>)}
               ELSE {ConfigureWindow(GetFrame(handle), "xy", <<b.x, b.y>>)}
    /\ UNCHANGED <<trackedWindows, threadVars, pc, cw, nextId, serverVars, requests,
                   procState, embedded, disciplined, waitFailed, failedThreads, call, prev>>
    /\ UNCHANGED <<discoveryVars, geometryVars, captureVars>>

NextBounds ==
    \/ Next
    \/ \E handle \in Windows, b \in Rects : SetBounds(handle, b)

SpecBounds == Init /\ [][NextBounds]_vars

\* ------------------------------------------------ OSWindow::GetClientBounds
\* parent-relative positions the server may report (int16_t x, y)
Positions ==
    {[x |-> 5, y |-> -3], [x |-> 20000, y |-> 7], [x |-> -3, y |-> 20000]}

\* A call's input: the geometry of the handle, the ancestors below the root
\* (nearest first) with their positions, and the one query that gets no reply:
\* <<"own">>, <<"tree", i>> (tree query on the i-th window of the walk, the
\* handle being 0), <<"geometry", i>> (geometry query on ancestor i) or <<>>.
Chains ==
    UNION {
        { [own |-> [x |-> o.x, y |-> o.y, width |-> 640, height |-> 480],
           anc |-> a, noReply |-> f] :
             o \in Positions, a \in [1..n -> Positions],
             f \in {<<>>, <<"own">>} \cup {<<"tree", i>> : i \in 0..n}
                   \cup {<<"geometry", i>> : i \in 1..n} }
        : n \in 0..MaxAncestors }

JSRectangle(x, y, width, height) == [x |-> x, y |-> y, width |-> width, height |-> height]

\* x and y are declared auto from int16_t fields, so x += reply->x is
\* computed in int and stored back into an int16_t
Int16(v) == ((v + 32768) % 65536) - 32768

RECURSIVE AncestorWalk(_, _, _, _)
\* Lines 83-101, entered with `window` the i-th window of the walk
AncestorWalk(c, i, x, y) ==
    IF c.noReply = <<"tree", i>> \/ i = Len(c.anc)
    THEN JSRectangle(x, y, c.own.width, c.own.height)
    ELSE IF c.noReply = <<"geometry", i + 1>>
         THEN JSRectangle(x, y, c.own.width, c.own.height)
         ELSE AncestorWalk(c, i + 1, Int16(x + c.anc[i + 1].x), Int16(y + c.anc[i + 1].y))

\* Lines 70-104
GetClientBounds(c) ==
    IF c.noReply = <<"own">> THEN JSRectangle(0, 0, 0, 0)
    ELSE AncestorWalk(c, 0, c.own.x, c.own.y)

CallGetClientBounds ==
    /\ chain # <<>>
    /\ clientBounds = <<>>
    /\ clientBounds' = GetClientBounds(chain)
    /\ UNCHANGED <<chain, boundsVars, discoveryVars, captureVars>>
    /\ UNCHANGED <<trackedWindows, threadVars, pc, cw, nextId, serverVars, requests,
                   procState, embedded, disciplined, waitFailed, failedThreads, call, prev>>

InitGeometry ==
    /\ RegistryInit /\ BoundsIdle /\ DiscoveryIdle /\ CaptureIdle
    /\ chain \in Chains
    /\ clientBounds = <<>>

NextGeometry == CallGetClientBounds

SpecGeometry == InitGeometry /\ [][NextGeometry]_vars

\* ------------------------------------------------------- OSGetRsHandles
LongLength == 4096   \* const uint32_t long_length

Nodes == 1..MaxNodes

\* Replies to the WM_CLASS read: none, or the reported value length and the
\* NUL-separated strings of the value (instance name, then class name)
NoProperty == [reply |-> FALSE, len |-> 0, value |-> <<>>]
Property(len, value) == [reply |-> TRUE, len |-> len, value |-> value]
Properties ==
    {NoProperty,
     Property(0, <<>>),
     Property(LongLength, <<"RuneScape", "RuneScape">>),
     Property(20, <<"RuneScape", "RuneScape">>),
     Property(36, <<"steam_app_1343400", "steam_app_1343400">>),
     Property(16, <<"RuneScape", "XTerm">>)}

\* A call's input: the parent of every window below the root (node 0), its
\* WM_CLASS reply, and the window whose tree query gets no reply (-1: none)
Trees ==
    [parent : {q \in [Nodes -> 0..MaxNodes] : \A n \in Nodes : q[n] < n},
     prop   : [Nodes -> Properties],
     noTree : -1..MaxNodes]

RECURSIVE Ascending(_)
Ascending(S) ==
    IF S = {} THEN <<>>
    ELSE LET m == CHOOSE x \in S : \A y \in S : x <= y
         IN  <<m>> \o Ascending(S \ {m})

\* xcb_query_tree_children: the children of window, in the reply's order
Children(t, window) == Ascending({n \in Nodes : t.parent[n] = window})

\* buffer + strlen(buffer) + 1 in the zero-filled buffer: the second string
ClassName(value) == IF Len(value) >= 2 THEN value[2] ELSE ""

TakeMatchAlways(st, child, depth) ==
    [out |-> Append(st.out, child), deepest |-> st.deepest]

\* Lines 178-184
TakeMatch(st, child, depth) ==
    IF depth > st.deepest THEN [out |-> <<child>>, deepest |-> depth]
    ELSE IF depth = st.deepest THEN [out |-> Append(st.out, child), deepest |-> st.deepest]
    ELSE st

\* Lines 166-188
CheckChild(t, child, st, depth) ==
    LET p == t.prop[child]
    IN  IF p.reply /\ p.len > 0 /\ p.len < LongLength
           /\ (ClassName(p.value) = "RuneScape" \/ ClassName(p.value) = "steam_app_1343400")
        THEN TakeMatch(st, child, depth)
        ELSE st

RECURSIVE GetRsHandlesRecursively(_, _, _, _)
RECURSIVE VisitChildren(_, _, _, _)
\* Lines 163-190: the loop over the children
VisitChildren(t, kids, st, depth) ==
    IF kids = <<>> THEN st
    ELSE VisitChildren(t, Tail(kids),
             GetRsHandlesRecursively(t, Head(kids), CheckChild(t, Head(kids), st, depth),
                                     depth + 1),
             depth)

\* Lines 153-193; st holds *out and *deepest
GetRsHandlesRecursively(t, window, st, depth) ==
    IF t.noTree = window THEN st
    ELSE VisitChildren(t, Children(t, window), st, depth)

\* Lines 195-201
OSGetRsHandles(t) ==
    GetRsHandlesRecursively(t, 0, [out |-> <<>>, deepest |-> 0], 0).out

CallGetRsHandles ==
    /\ tree # <<>>
    /\ rsHandles = <<>>
    /\ rsHandles' = [out |-> OSGetRsHandles(tree)]
    /\ UNCHANGED <<tree, boundsVars, geometryVars, captureVars>>
    /\ UNCHANGED <<trackedWindows, threadVars, pc, cw, nextId, serverVars, requests,
                   procState, embedded, disciplined, waitFailed, failedThreads, call, prev>>

InitDiscovery ==
    /\ RegistryInit /\ BoundsIdle /\ GeometryIdle /\ CaptureIdle
    /\ tree \in Trees
    /\ rsHandles = <<>>

NextDiscovery == CallGetRsHandles

SpecDiscovery == InitDiscovery /\ [][NextDiscovery]_vars

\* ------------------------------------------------------- OSCaptureMulti
\* CaptureMode values; "Other" stands for every value the switch has no case for
Modes == {"Desktop", "Window", "Other"}

CaptureRect(x, y, width, height) == [x |-> x, y |-> y, width |-> width, height |-> height]
RectLists ==
    {<<>>,
     <<CaptureRect(10, 10, 50, 50)>>,
     <<CaptureRect(10, 10, 50, 50), CaptureRect(30, 30, 50, 50)>>}

\* what wnd.GetClientBounds() meets in Desktop mode
SourceChains ==
    {c \in Chains : /\ c.own.x = 5
                    /\ Len(c.anc) = 0
                    /\ c.noReply \in {<<>>, <<"own">>}}

Request(op, target) == [op |-> op, target |-> target]

\* XShmCapture (linux/shm.h): the constructor attaches the shared segment to
\* the connection, copy reads one region of the drawable through it, the
\* destructor detaches it
ShmAttach(drawable) == Request("shm_attach", drawable)
ShmDetach(drawable) == Request("shm_detach", drawable)
ShmCopy(drawable, x, y, width, height) ==
    Request("shm_get_image", [drawable |-> drawable, x |-> x, y |-> y,
                              width |-> width, height |-> height])

\* Lines 286-288 and 306-308: one copy per rectangle, in order
Copies(drawable, rects, dx, dy) ==
    [i \in 1..Len(rects) |->
        ShmCopy(drawable, rects[i].x + dx, rects[i].y + dy, rects[i].width, rects[i].height)]

\* the effect of one request on what the server holds for the engine
ServerApply(s, r) ==
    CASE r.op = "composite_redirect_window" ->
            [s EXCEPT !.redirected = s.redirected \cup {r.target}]
      [] r.op = "composite_name_window_pixmap" ->
            [s EXCEPT !.pixmaps = s.pixmaps \cup {r.target}]
      [] r.op = "free_pixmap" ->
            [s EXCEPT !.pixmaps = s.pixmaps \ {r.target}]
      [] r.op = "shm_attach" ->
            [s EXCEPT !.shmAttached = s.shmAttached + 1]
      [] r.op = "shm_detach" ->
            [s EXCEPT !.shmAttached = s.shmAttached - 1]
      [] OTHER -> s

RECURSIVE ServerAfter(_, _)
ServerAfter(s, reqs) ==
    IF reqs = <<>> THEN s ELSE ServerAfter(ServerApply(s, Head(reqs)), Tail(reqs))

\* the call's requests reach the server in order; the call's outcome is kept
Returned(mode, result, reqs) ==
    LET s == ServerAfter([pixmaps |-> pixmaps, shmAttached |-> shmAttached,
                          redirected |-> redirected], reqs)
    IN  /\ pixmaps' = s.pixmaps
        /\ shmAttached' = s.shmAttached
        /\ redirected' = s.redirected
        /\ capture' = [mode |-> mode, result |-> result, requests |-> reqs,
                       regions |-> SelectSeq(reqs, LAMBDA r : r.op = "shm_get_image")]

\* Lines 280-289
OSCaptureDesktopMulti(wnd, rects, c) ==
    LET offset == GetClientBounds(c)
    IN  /\ Returned("Desktop", "ok",
                    <<ShmAttach(RootWindow)>>
                    \o Copies(RootWindow, rects, offset.x, offset.y)
                    \o <<ShmDetach(RootWindow)>>)
        /\ UNCHANGED nextId

EarlyReturnLeak(pixId) == <<>>

\* Lines 299-302
EarlyReturn(pixId) == <<Request("free_pixmap", pixId)>>

\* Lines 291-312.  The pixmap is named only if the server accepts the request
\* (named); without a pixmap the geometry query has no reply.  acquirer is
\* destroyed when the function returns, after line 311.
OSCaptureWindowMulti(wnd, rects, named, geomReply) ==
    LET pixId == nextId
    IN  /\ nextId \in GeneratedId
        /\ named \/ ~geomReply
        /\ nextId' = nextId + 1
        /\ Returned("Window", "ok",
                    <<Request("composite_redirect_window", wnd)>>
                    \o (IF named THEN <<Request("composite_name_window_pixmap", pixId)>>
                        ELSE <<>>)
                    \o <<Request("get_geometry", pixId)>>
                    \o (IF ~geomReply THEN EarlyReturn(pixId)
                        ELSE <<ShmAttach(pixId)>>
                             \o Copies(pixId, rects, 0, 0)
                             \o <<Request("free_pixmap", pixId), ShmDetach(pixId)>>))

ThrowNothing(mode) == Returned(mode, "ok", <<>>)

\* Line 324
ThrowRangeError(mode) == Returned(mode, "range_error", <<>>)

\* Lines 314-326
OSCaptureMulti(wnd, mode, rects, c, named, geomReply) ==
    /\ procState = "running"
    /\ pc = "idle"
    /\ \/ mode = "Desktop" /\ OSCaptureDesktopMulti(wnd, rects, c)
       \/ mode = "Window" /\ OSCaptureWindowMulti(wnd, rects, named, geomReply)
       \/ mode \notin {"Desktop", "Window"} /\ ThrowRangeError(mode) /\ UNCHANGED nextId
    /\ UNCHANGED <<boundsVars, discoveryVars, geometryVars>>
    /\ UNCHANGED <<trackedWindows, threadVars, pc, cw, serverVars, requests,
                   procState, embedded, disciplined, waitFailed, failedThreads, call, prev>>

NextCapture ==
    \E wnd \in Windows, mode \in Modes, rects \in RectLists, c \in SourceChains,
       named \in BOOLEAN, geomReply \in BOOLEAN :
        OSCaptureMulti(wnd, mode, rects, c, named, geomReply)

SpecCapture == Init /\ [][NextCapture]_vars

\* ------------------------------------------------------------- type check
TypeOK ==
    /\ \A i \in 1..Len(trackedWindows) :
          trackedWindows[i].window \in Windows /\ trackedWindows[i].frame \in GeneratedId
    /\ windowThread \in 0..MaxThreads
    /\ windowThreadExists \in BOOLEAN /\ windowThreadShouldRun \in BOOLEAN
    /\ tpc \in [Threads -> {"unborn", "loop", "wait", "exit", "done"}]
    /\ pc \in {"idle", "create_window", "start_gc", "start_exists", "start_thread", "join"}
    /\ cw \in Windows \cup {NoWindow}
    /\ nextId \in FirstId .. (FirstId + MaxIds)
    /\ frames \subseteq GeneratedId
    /\ xparent \in [Windows -> {RootWindow} \cup GeneratedId]
    /\ overrideRedirect \subseteq Windows
    /\ procState \in {"running", "segv", "terminated"}

\* ---------------------------------------------------------------- claims
RegistryWindows == {trackedWindows[i].window : i \in 1..Len(trackedWindows)}
RegistryFrames  == {trackedWindows[i].frame : i \in 1..Len(trackedWindows)}
UniqueWindows ==
    \A i, j \in 1..Len(trackedWindows) :
        i # j => trackedWindows[i].window # trackedWindows[j].window
UniqueFrames ==
    \A i, j \in 1..Len(trackedWindows) :
        i # j => trackedWindows[i].frame # trackedWindows[j].frame
ThreadRunning(t) == tpc[t] \in {"loop", "wait"}
NoThreadAlive    == \A t \in Threads : tpc[t] \in {"unborn", "done"}

\* C1: after any serialized sequence of SetParent calls in which every embed
\* was of a valid window that was Floating, the registry holds exactly the
\* windows embedded and not yet un-embedded, each once, with distinct frames.
C1_RegistryExact ==
    (pc = "idle" /\ disciplined) =>
        /\ RegistryWindows = embedded
        /\ UniqueWindows
        /\ UniqueFrames

C1_Witness ==
    /\ pc = "idle" /\ disciplined
    /\ call = "unembed" /\ prev = "embed"
    /\ Len(trackedWindows) = 1

\* C2: in every reachable state no two registry entries have the same window,
\* also after an embed of a window that already has an entry.
C2_UniqueWindowAlways == (pc = "idle") => UniqueWindows

\* C3: when an un-embed removes the last remaining entry, the event thread
\* has been joined and has cleared the thread-exists flag by the time the call
\* returns, and the next embed (one whose queries are answered) takes the
\* thread-start branch and starts a fresh event thread without terminating.
C3_LastUnembedStopsThread ==
    [][ /\ (pc = "join" /\ pc' = "idle") =>
               /\ windowThread' = 0
               /\ ~windowThreadExists'
               /\ NoThreadAlive'
               /\ trackedWindows' = <<>>
        /\ (pc = "idle" /\ call = "unembed_last" /\ call' = "embed") =>
               pc' = "start_gc"
        /\ (StartThread /\ prev = "unembed_last") =>
               /\ procState' = "running"
               /\ pc' = "idle"
               /\ windowThread' # 0
               /\ tpc[windowThread'] = "unborn"
               /\ tpc'[windowThread'] = "loop"
      ]_vars

C3_Witness ==
    /\ pc = "idle" /\ call = "embed" /\ prev = "unembed_last"
    /\ windowThread = 2 /\ tpc[1] = "done" /\ ThreadRunning(2)

\* C4: whenever the registry is empty and no SetParent call is in progress,
\* no event thread is running and the thread has been joined.
C4_EmptyMeansStopped ==
    (pc = "idle" /\ trackedWindows = <<>>) =>
        (\A t \in Threads : ~ThreadRunning(t)) /\ windowThread = 0

\* C5: as long as xcb_wait_for_event has never failed, whenever the registry
\* is non-empty and no SetParent call is in progress, the event thread is
\* running: it exists, is flagged to run and is inside its loop.
C5_NonEmptyMeansRunning ==
    (pc = "idle" /\ ~waitFailed /\ trackedWindows # <<>>) =>
        /\ windowThread # 0
        /\ ThreadRunning(windowThread)
        /\ windowThreadExists
        /\ windowThreadShouldRun

C5_Witness ==
    /\ pc = "idle" /\ ~waitFailed
    /\ Len(trackedWindows) = 1
    /\ call = "unembed" /\ tpc[windowThread] = "wait"

\* C6: once the event thread has left its loop on a wait failure, the process
\* is not brought down: a later embed that reaches the thread start starts a
\* new event thread and returns normally.
C6_WaitFailureNotFatal ==
    [][ (waitFailed /\ StartThread) =>
            /\ procState' = "running"
            /\ pc' = "idle"
            /\ windowThread' # 0
            /\ tpc'[windowThread'] = "loop"
      ]_vars

\* C7: an embed whose tree query or whose geometry query gets no reply changes
\* nothing (registry, identifiers, frames, parent of the window, its
\* attributes, the thread) and returns normally.
C7_NoReplyAborts ==
    [][ \A p \in Parents, treeReply \in BOOLEAN, geomReply \in BOOLEAN, ub \in UBOutcomes :
           (~(treeReply /\ geomReply) /\ SetParentEmbed(cw', p, treeReply, geomReply, ub)) =>
               /\ UNCHANGED <<trackedWindows, nextId, serverVars, threadVars>>
               /\ pc' = "idle"
               /\ procState' = "running"
      ]_vars

\* C8: whenever no SetParent call is in progress, the frames created and not
\* destroyed are exactly the frames of the registry entries.
C8_FramesMatchRegistry == (pc = "idle") => frames = RegistryFrames

\* C9: an embed under a parent whose own parent is the root window leaves the
\* registry, the identifier allocator, the frames, the window's parent and
\* attributes and the event thread untouched, and sends only the two queries.
C9_ToplevelParentNoOp ==
    [][ \A p \in Parents, geomReply \in BOOLEAN, ub \in UBOutcomes :
           (TreeParent(p) = RootWindow /\ SetParentEmbed(cw', p, TRUE, geomReply, ub)) =>
               /\ UNCHANGED <<trackedWindows, nextId, serverVars, threadVars, pc,
                              procState>>
               /\ requests' = {"query_tree", "get_geometry"}
      ]_vars

C9_Witness ==
    /\ pc = "idle" /\ call = "embed_toplevel"
    /\ trackedWindows # <<>> /\ Floating(cw)

\* C10: an un-embed of a window that has no registry entry sends no request
\* and leaves the registry, both flags and the thread untouched; the call
\* returns at once, without a join and without an error.
C10_UnembedAbsentNoOp ==
    [][ (Floating(cw') /\ SetParentDetach(cw')) =>
            /\ requests' = {}
            /\ UNCHANGED <<trackedWindows, nextId, serverVars, threadVars, pc, procState>>
      ]_vars

C10_Witness ==
    /\ pc = "idle" /\ call = "unembed_absent"
    /\ trackedWindows # <<>> /\ requests = {}

\* C16: at most one event thread is inside its wait loop at any time; the
\* caller is in the thread-start branch (it read the thread-exists flag as
\* false) only while no thread is inside the loop; and the flag is cleared
\* only by the step in which a thread that has left its loop finishes.
C16_SingleEventThread ==
    /\ [](/\ Cardinality({t \in Threads : ThreadRunning(t)}) <= 1
          /\ (pc \in {"start_gc", "start_exists", "start_thread"}) =>
                 (\A t \in Threads : ~ThreadRunning(t)))
    /\ [][ (windowThreadExists /\ ~windowThreadExists') =>
               (\E t \in Threads : tpc[t] = "exit" /\ tpc'[t] = "done")
         ]_vars

C16_Witness ==
    /\ 1 \in failedThreads /\ tpc[1] = "done"
    /\ windowThread = 2 /\ tpc[2] = "wait"

\* C17: under the fairness of SpecFair the un-embed of the last entry, once
\* blocked in join(), eventually returns; and while the run flag is cleared a
\* thread that reaches the loop test never waits for another event, so it
\* dispatches at most the one event it was already waiting for.
C17_LastUnembedReturns ==
    /\ (pc = "join") ~> (pc = "idle")
    /\ [][ \A t \in Threads :
              (~windowThreadShouldRun /\ tpc[t] = "loop") => tpc'[t] \in {"loop", "exit"}
         ]_vars

C17_Witness ==
    /\ pc = "join" /\ ~windowThreadShouldRun
    /\ windowThread # 0 /\ tpc[windowThread] = "wait"

RemoveAt(tw, k) == SubSeq(tw, 1, k - 1) \o SubSeq(tw, k + 1, Len(tw))

\* C18: an un-embed of an embedded window while the registry holds more than
\* one entry removes exactly one entry, the one of that window, and destroys
\* exactly that entry's frame; the run flag, the thread-exists flag and the
\* thread are untouched and the call returns without a join.
C18_UnembedOneOfMany ==
    [][ (~Floating(cw') /\ Len(trackedWindows) > 1 /\ SetParentDetach(cw')) =>
            /\ \E k \in 1..Len(trackedWindows) :
                  /\ trackedWindows[k].window = cw'
                  /\ trackedWindows' = RemoveAt(trackedWindows, k)
                  /\ frames' = frames \ {trackedWindows[k].frame}
            /\ UNCHANGED threadVars
            /\ pc' = "idle"
      ]_vars

\* C19: a NULL event makes the thread leave its loop whatever the run flag
\* says, without touching the registry or the flag; such a thread never
\* re-enters the loop; join() is only ever called on a joinable thread; and
\* the un-embed of the last entry after such an exit returns, leaving the
\* registry empty, without any further event being needed.
C19_WaitFailureExit ==
    /\ [][ \A t \in Threads :
              ThreadWait(t, NoEvent) =>
                  /\ tpc'[t] = "exit"
                  /\ UNCHANGED <<trackedWindows, windowThreadShouldRun>>
         ]_vars
    /\ [](/\ \A t \in failedThreads : tpc[t] \in {"exit", "done"}
          /\ (pc = "join") => windowThread # 0)
    /\ (pc = "join" /\ windowThread \in failedThreads)
           ~> (pc = "idle" /\ trackedWindows = <<>> /\ procState = "running")

C19_Witness ==
    /\ pc = "idle" /\ call = "unembed_last" /\ trackedWindows = <<>>
    /\ 1 \in failedThreads /\ tpc[1] = "done" /\ tpc[2] = "unborn"
    /\ windowThread = 0

\* C20: SetBounds leaves the registry and the event thread alone; on a window
\* without an entry it sends no configure request; on an embedded window it
\* sends one request to a frame of that window (the position, and the size
\* when width and height are both positive) and, only when resizing, one to
\* the window itself at (0,0) with the same size; no request goes to the frame
\* of another window's entry.
C20_SetBoundsOwnFrameOnly ==
    [][ \A b \in Rects :
           SetBounds(bw', b) =>
               /\ UNCHANGED <<trackedWindows, threadVars, serverVars>>
               /\ Floating(bw') => configured' = {}
               /\ ~Floating(bw') =>
                     \E k \in 1..Len(trackedWindows) :
                        LET f    == trackedWindows[k].frame
                            both == b.width > 0 /\ b.height > 0
                        IN  /\ trackedWindows[k].window = bw'
                            /\ \A r \in configured' : r.window \in {f, bw'}
                            /\ \E r \in configured' :
                                  /\ r.window = f
                                  /\ r.values = IF both THEN <<b.x, b.y, b.width, b.height>>
                                                ELSE <<b.x, b.y>>
                            /\ IF both
                               THEN \E r \in configured' :
                                       /\ r.window = bw'
                                       /\ r.values = <<0, 0, b.width, b.height>>
                               ELSE Cardinality(configured') = 1
      ]_vars

C20_Witness ==
    /\ Len(trackedWindows) = 2 /\ UniqueWindows
    /\ ~Floating(bw) /\ Cardinality(configured) = 1

\* the ancestors whose offset the walk reaches before the first missing reply
RECURSIVE Reached(_, _)
Reached(c, k) ==
    IF k < Len(c.anc) /\ c.noReply # <<"tree", k>> /\ c.noReply # <<"geometry", k + 1>>
    THEN Reached(c, k + 1)
    ELSE k

RECURSIVE SumX(_, _)
SumX(a, k) == IF k = 0 THEN 0 ELSE a[k].x + SumX(a, k - 1)
RECURSIVE SumY(_, _)
SumY(a, k) == IF k = 0 THEN 0 ELSE a[k].y + SumY(a, k - 1)

\* C12: when the handle's own geometry is answered, GetClientBounds returns
\* the handle's width and height and, as position, its own offset plus the
\* sum of the offsets of all ancestors, or of the ancestors reached before the
\* first tree or geometry query without a reply.
C12_ClientBoundsSum ==
    (clientBounds # <<>> /\ chain.noReply # <<"own">>) =>
        LET k == Reached(chain, 0)
        IN  /\ clientBounds.width = chain.own.width
            /\ clientBounds.height = chain.own.height
            /\ clientBounds.x = chain.own.x + SumX(chain.anc, k)
            /\ clientBounds.y = chain.own.y + SumY(chain.anc, k)

RECURSIVE Depth(_, _)
Depth(t, n) == IF t.parent[n] = 0 THEN 0 ELSE 1 + Depth(t, t.parent[n])

\* a window is walked when its tree query and those of all its ancestors are
\* answered; a node is visited when its parent is walked
RECURSIVE Walked(_, _)
Walked(t, w) == t.noTree # w /\ (w = 0 \/ Walked(t, t.parent[w]))
Visited(t, n) == Walked(t, t.parent[n])

FullyRead(p)  == p.reply /\ p.len > 0 /\ p.len < LongLength
GameClass(p)  == Len(p.value) >= 2 /\ p.value[2] \in {"RuneScape", "steam_app_1343400"}
Matching(t)   == {n \in Nodes : Visited(t, n) /\ FullyRead(t.prop[n]) /\ GameClass(t.prop[n])}

Ops(reqs) == {reqs[i].op : i \in 1..Len(reqs)}
Count(reqs, op) == Len(SelectSeq(reqs, LAMBDA r : r.op = op))
ServerCapture == <<pixmaps, shmAttached, redirected>>

\* C13: a Capture call with a mode other than Desktop or Window reports a
\* range error to the caller and sends no request: no redirect, no pixmap,
\* no shared-memory attach, no geometry query; the server is left as it was.
C13_UnsupportedMode ==
    [][(capture'.mode \notin {"Desktop", "Window"}) =>
          /\ capture'.result = "range_error"
          /\ capture'.requests = <<>>
          /\ ServerCapture' = ServerCapture
          /\ nextId' = nextId]_vars

C13_Witness ==
    /\ capture.mode = "Other"
    /\ capture.result = "range_error"
    /\ redirected # {}

\* C14: when a Window-mode capture returns, every pixmap it named has been
\* freed and every shared segment it attached has been detached, both on the
\* early return after a failed geometry query (no region read) and after all
\* rectangles have been copied.
C14_WindowCaptureReleases ==
    [][(capture'.mode = "Window") =>
          LET reqs == capture'.requests
          IN  /\ pixmaps' = pixmaps
              /\ shmAttached' = shmAttached
              /\ \A i \in 1..Len(reqs) :
                    reqs[i].op = "composite_name_window_pixmap" =>
                        \E j \in (i + 1)..Len(reqs) :
                            reqs[j] = Request("free_pixmap", reqs[i].target)
              /\ Count(reqs, "shm_attach") = Count(reqs, "shm_detach")
              /\ "shm_attach" \notin Ops(reqs) => capture'.regions = <<>>]_vars

C14_Witness ==
    /\ capture.mode = "Window"
    /\ "composite_name_window_pixmap" \in Ops(capture.requests)
    /\ "shm_attach" \notin Ops(capture.requests)
    /\ pixmaps = {}

\* C15: a Capture call in either mode leaves the server-side state the engine
\* set up for the window (named pixmaps, shared-memory attachments, output
\* redirection) as it was before the call.
C15_NoCaptureStatePersists ==
    [][(capture'.mode \in {"Desktop", "Window"}) => ServerCapture' = ServerCapture]_vars

====
